---- MODULE Spec2Model ----
(***************************************************************************)
(* A model of the Monkey interpreter's runtime support code:               *)
(*   object/environment.go   Environment, NewEnvironment, Get, Set         *)
(*   object/object.go        the Object variants, Inspect, HashKey         *)
(*   evaluator/builtins.go   the built-in functions                        *)
(*   repl (unnamed/part_001) Start, printParserErrors                      *)
(* Objects live in a heap and are referred to by address (a Go pointer);   *)
(* address 0 is nil.  Slices refer to backing arrays held in bufs.         *)
(***************************************************************************)
EXTENDS Integers, Sequences, FiniteSets, TLC

VARIABLES
    heap,     \* the allocated objects, by address
    bufs,     \* the backing arrays of slices, by index
    stdout,   \* what fmt.Println wrote to the process's standard output
    store,    \* the store of every Environment, by environment address
    outer,    \* the enclosing Environment of every Environment (0: none)
    lastSet,  \* history: per environment, the value last Set for each name
    op,       \* the operation performed last, with its result
    args,     \* the arguments of the call of a function
    snap,     \* history: the elements of every Array when it was created
    sess      \* the REPL sessions

vars == <<heap, bufs, stdout, store, outer, lastSet, op, args, snap, sess>>

(***************************************************************************)
(* Bounds of the model.                                                    *)
(***************************************************************************)
MaxEnvs == 2
MaxArgs == 3
MaxCalls == 3
MaxLines == 2
MaxStrLen == 2

(***************************************************************************)
(* Text.                                                                   *)
(***************************************************************************)
Digit(d) ==
    CASE d = 0 -> "0" [] d = 1 -> "1" [] d = 2 -> "2" [] d = 3 -> "3"
      [] d = 4 -> "4" [] d = 5 -> "5" [] d = 6 -> "6" [] d = 7 -> "7"
      [] d = 8 -> "8" [] d = 9 -> "9"

RECURSIVE NatToStr(_)
NatToStr(n) ==
    IF n < 10 THEN Digit(n) ELSE NatToStr(n \div 10) \o Digit(n % 10)

\* fmt.Sprintf("%d", n)
IntToStr(n) == IF n < 0 THEN "-" \o NatToStr(0 - n) ELSE NatToStr(n)

\* strings.Join(parts, sep)
RECURSIVE Join(_, _)
Join(parts, sep) ==
    IF Len(parts) = 0 THEN ""
    ELSE IF Len(parts) = 1 THEN parts[1]
    ELSE parts[1] \o sep \o Join(Tail(parts), sep)

\* string(chars): the text of a string held as its sequence of characters
Text(chars) == Join(chars, "")

(***************************************************************************)
(* The object model (object/object.go).                                    *)
(***************************************************************************)
INTEGER_OBJ == "INTEGER"
BOOLEAN_OBJ == "BOOLEAN"
NULL_OBJ == "NULL"
RETURN_VALUE_OBJ == "RETURN_VALUE"
ERROR_OBJ == "ERROR"
FUNCTION_OBJ == "FUNCTION"
STRING_OBJ == "STRING"
BUILTIN_OBJ == "BUILTIN"
ARRAY_OBJ == "ARRAY"
HASH_OBJ == "HASH"

Integer(v) == [type |-> INTEGER_OBJ, Value |-> v]
Boolean(v) == [type |-> BOOLEAN_OBJ, Value |-> v]
Null == [type |-> NULL_OBJ]
ReturnValue(a) == [type |-> RETURN_VALUE_OBJ, Value |-> a]
Function(params, body, env) ==
    [type |-> FUNCTION_OBJ, Parameters |-> params, Body |-> body, Environment |-> env]
Error(msg) == [type |-> ERROR_OBJ, Message |-> msg]
String(chars) == [type |-> STRING_OBJ, Value |-> chars]
Builtin(name) == [type |-> BUILTIN_OBJ, Fn |-> name]
\* a slice: a window of len elements of backing array buf, starting at off
Slice(buf, off, len) == [buf |-> buf, off |-> off, len |-> len]
Array(elements) == [type |-> ARRAY_OBJ, Elements |-> elements]
HashPair(k, v) == [Key |-> k, Value |-> v]
Hash(pairs) == [type |-> HASH_OBJ, Pairs |-> pairs]

\* the elements a slice shows
SliceElems(b, s) == SubSeq(b[s.buf], s.off + 1, s.off + s.len)

\* o.Type()
Type(h, a) == h[a].type

\* the canonical Null instance of the evaluator, NULL
NULL == 1

\* The objects that exist before any call: one of every Object variant.
BaseHeap ==
    << Null,                                \* 1  NULL
       Boolean(TRUE),                       \* 2
       Boolean(FALSE),                      \* 3
       Integer(1),                          \* 4
       Integer(2),                          \* 5
       String(<<"a", "b">>),                \* 6
       Array(Slice(1, 0, 0)),               \* 7  []
       Array(Slice(2, 0, 2)),               \* 8  [1, 2]
       Hash(<<HashPair(4, 6)>>),            \* 9  {1: "ab"}
       Function(<<"x", "y">>, "(x + y)", 0),\* 10
       Builtin("len"),                      \* 11
       ReturnValue(4),                      \* 12
       Error("boom"),                       \* 13
       Array(Slice(3, 0, 1)) >>             \* 14 [2]

BaseBufs == << <<>>, <<4, 5>>, <<5>> >>

\* fmt.Sprintf("%v", o) of an object pointer: Go prints &{fields}
GoFormatV(h, a) ==
    IF a = 0 THEN "<nil>"
    ELSE CASE h[a].type = INTEGER_OBJ -> "&{" \o IntToStr(h[a].Value) \o "}"
           [] h[a].type = BOOLEAN_OBJ ->
                "&{" \o (IF h[a].Value THEN "true" ELSE "false") \o "}"
           [] h[a].type = STRING_OBJ -> "&{" \o Text(h[a].Value) \o "}"
           [] h[a].type = ERROR_OBJ -> "&{" \o h[a].Message \o "}"
           [] h[a].type = NULL_OBJ -> "&{}"
           [] OTHER -> "&{0x" \o IntToStr(a) \o "}"

\* o.Inspect()
RECURSIVE Inspect(_, _, _)
Inspect(h, b, a) ==
    CASE h[a].type = INTEGER_OBJ -> IntToStr(h[a].Value)
      [] h[a].type = BOOLEAN_OBJ -> IF h[a].Value THEN "true" ELSE "false"
      [] h[a].type = NULL_OBJ -> "null"
      [] h[a].type = RETURN_VALUE_OBJ -> GoFormatV(h, h[a].Value)
      [] h[a].type = FUNCTION_OBJ ->
            "fn" \o "(" \o Join(h[a].Parameters, ", ") \o ") {\n"
                 \o h[a].Body \o "\n}"
      [] h[a].type = ERROR_OBJ -> "ERROR: " \o h[a].Message
      [] h[a].type = STRING_OBJ -> Text(h[a].Value)
      [] h[a].type = BUILTIN_OBJ -> "builtin function"
      [] h[a].type = ARRAY_OBJ ->
            LET els == SliceElems(b, h[a].Elements)
            IN  "[" \o Join([i \in 1..Len(els) |-> Inspect(h, b, els[i])], ", ")
                    \o "]"
      [] h[a].type = HASH_OBJ ->
            LET ps == h[a].Pairs
            IN  "{" \o Join([i \in 1..Len(ps) |->
                               Inspect(h, b, ps[i].Key) \o ": "
                                 \o Inspect(h, b, ps[i].Value)], ", ")
                    \o "}"

(***************************************************************************)
(* Environment (object/environment.go).                                    *)
(***************************************************************************)
Names == {"x", "y"}
EnvValues == {4, 5}

\* make(map[string]Object)
EmptyStore == [n \in {} |-> 0]

\* m[k] = v
MapSet(m, k, v) == [n \in DOMAIN m \cup {k} |-> IF n = k THEN v ELSE m[n]]

\* o, ok := m[k]
MapGet(m, k) == IF k \in DOMAIN m THEN <<m[k], TRUE>> ELSE <<0, FALSE>>

\* e.Get(name): the store of e alone is consulted
Get(st, e, name) == MapGet(st[e], name)

\* e.Set(name, val): the stores after the call
SetWritesEverywhere(st, e, name, val) ==
    [i \in 1..Len(st) |-> MapSet(st[i], name, val)]
Set(st, e, name, val) == [st EXCEPT ![e] = MapSet(st[e], name, val)]

\* The lookup the environment chain calls for: the innermost binding.
RECURSIVE ChainLookup(_, _, _, _)
ChainLookup(st, ou, e, name) ==
    IF name \in DOMAIN st[e] THEN <<st[e][name], TRUE>>
    ELSE IF ou[e] = 0 THEN <<0, FALSE>>
    ELSE ChainLookup(st, ou, ou[e], name)

EnvInit ==
    /\ heap = BaseHeap
    /\ bufs = BaseBufs
    /\ stdout = <<>>
    /\ store = <<>>
    /\ outer = <<>>
    /\ lastSet = <<>>
    /\ op = [kind |-> "none"]
    /\ args = <<>>
    /\ snap = <<>>
    /\ sess = <<>>

\* NewEnvironment()
NewEnvironment ==
    /\ Len(store) < MaxEnvs
    /\ store' = Append(store, EmptyStore)
    /\ outer' = Append(outer, 0)
    /\ lastSet' = Append(lastSet, EmptyStore)
    /\ op' = [kind |-> "NewEnvironment", env |-> Len(store) + 1]
    /\ UNCHANGED <<heap, bufs, stdout, args, sess, snap>>

\* A scope enclosed by environment o, as a function call creates it.
NewEnclosedEnvironment(o) ==
    /\ Len(store) < MaxEnvs
    /\ store' = Append(store, EmptyStore)
    /\ outer' = Append(outer, o)
    /\ lastSet' = Append(lastSet, EmptyStore)
    /\ op' = [kind |-> "NewEnclosedEnvironment", env |-> Len(store) + 1]
    /\ UNCHANGED <<heap, bufs, stdout, args, sess, snap>>

DoSet(e, name, val) ==
    /\ store' = Set(store, e, name, val)
    /\ lastSet' = [lastSet EXCEPT ![e] = MapSet(lastSet[e], name, val)]
    /\ op' = [kind |-> "Set", env |-> e, name |-> name, ret |-> val]
    /\ UNCHANGED <<heap, bufs, stdout, outer, args, sess, snap>>

DoGet(e, name) ==
    /\ op' = [kind |-> "Get", env |-> e, name |-> name, ret |-> Get(store, e, name)]
    /\ UNCHANGED <<heap, bufs, stdout, store, outer, lastSet, args, sess, snap>>

EnvNext ==
    \/ NewEnvironment
    \/ \E o \in 1..Len(store) : NewEnclosedEnvironment(o)
    \/ \E e \in 1..Len(store), name \in Names, val \in EnvValues : DoSet(e, name, val)
    \/ \E e \in 1..Len(store), name \in Names : DoGet(e, name)

SpecEnv == EnvInit /\ [][EnvNext]_vars

\* C1: Get(name) returns the binding of the innermost environment of the
\* chain (the environment itself, then its outer environments in order)
\* that binds the name, and found = false only when none binds it.
C1_GetWalksChain ==
    op.kind = "Get" => op.ret = ChainLookup(store, outer, op.env, op.name)

\* C2: Set writes only the store it is called on and returns the value:
\* in every environment, Get of a name returns the value of the most recent
\* Set of that name on that environment, and not-found when there was none
\* (no other store is written, no binding is ever removed).
C2_SetIsLocal ==
    /\ \A e \in 1..Len(store) : \A name \in Names :
          Get(store, e, name) = MapGet(lastSet[e], name)
    /\ op.kind = "Set" => op.ret = MapGet(lastSet[op.env], op.name)[1]

\* an overwrite in one environment while another holds a different binding
\* of the same name and a third name is bound beside it
C2_Witness ==
    /\ op.kind = "Set"
    /\ Len(store) >= 2
    /\ \E e \in 1..Len(store) :
          /\ e # op.env
          /\ op.name \in DOMAIN store[e]
          /\ store[e][op.name] # op.ret
    /\ DOMAIN store[op.env] = Names

(***************************************************************************)
(* The REPL (repl.Start).  A line of input is modelled by what the lexer   *)
(* and parser make of it: the parser's error list and the Program.  The    *)
(* writes to out are kept one entry per Write call.                        *)
(***************************************************************************)
PROMPT == ">>"

MONKEY_FACE ==
    "            __,__\n"
    \o "   .--.  .-\"     \"-.  .--.\n"
    \o "  / .. \\/  .-. .-.  \\/ .. \\\n"
    \o " | |  '|  /   Y   \\  |'  | |\n"
    \o " | \\   \\  \\ 0 | 0 /  /   / |\n"
    \o "  \\ '- ,\\.-\"\"\"\"\"\"\"-./, -' /\n"
    \o "   ''-' /_   ^ ^   _\\ '-''\n"
    \o "       |  \\._   _./  |\n"
    \o "       \\   \\ '~' /   /\n"
    \o "        '._ '-=-' _.'\n"
    \o "           '-----'\n"

Sessions == {"s1", "s2"}

\* The objects evaluation yields in the sessions: the integer literals'
\* objects (4, 5) and the errors of unbound identifiers (15, 16).
ReplHeap ==
    BaseHeap \o << Error("identifier not found: x"),
                   Error("identifier not found: y") >>

NotFoundError(name) ==
    CHOOSE a \in 1..Len(ReplHeap) :
        /\ ReplHeap[a].type = ERROR_OBJ
        /\ ReplHeap[a].Message = "identifier not found: " \o name

\* What lexer.New, parser.New, p.ParseProgram() and p.Errors() give for
\* the lines of input a session may read.
Lines ==
    { [src |-> "let x = 1;", errors |-> <<>>,
       program |-> [kind |-> "let", name |-> "x", value |-> 4]],
      [src |-> "let y = 2;", errors |-> <<>>,
       program |-> [kind |-> "let", name |-> "y", value |-> 5]],
      [src |-> "x", errors |-> <<>>,
       program |-> [kind |-> "ident", name |-> "x", value |-> 0]],
      [src |-> "let x 1 +;",
       errors |-> << "expected next token to be =, got INT instead",
                     "no prefix parse function for ; found" >>,
       program |-> [kind |-> "none", name |-> "", value |-> 0]] }

\* evaluator.Eval(program, env): a let statement binds the name in env and
\* yields nil; an identifier yields its binding or an Error object.
Eval(st, program, env) ==
    CASE program.kind = "let" ->
            [result |-> 0, store |-> Set(st, env, program.name, program.value)]
      [] program.kind = "ident" ->
            LET g == Get(st, env, program.name)
            IN  [result |-> IF g[2] THEN g[1] ELSE NotFoundError(program.name),
                 store |-> st]

\* printParserErrors(out, errors): out after the call
printParserErrorsFirstOnly(out, errors) ==
    out \o << MONKEY_FACE,
              "Whoos! We ran into some monkey business here!\n",
              " parser errors:\n",
              "\t" \o errors[1] \o "\n" >>
printParserErrors(out, errors) ==
    out \o << MONKEY_FACE,
              "Whoos! We ran into some monkey business here!\n",
              " parser errors:\n" >>
        \o [i \in 1..Len(errors) |-> "\t" \o errors[i] \o "\n"]

\* if evaluated != nil { io.WriteString(out, evaluated.Inspect());
\*                       io.WriteString(out, "\n") }: out after it
WriteResultNoNewline(out, h, b, evaluated) ==
    IF evaluated # 0 THEN out \o << Inspect(h, b, evaluated) >> ELSE out
WriteResult(out, h, b, evaluated) ==
    IF evaluated # 0 THEN out \o << Inspect(h, b, evaluated), "\n" >> ELSE out

\* the env variable of Start, as the loop passes it to Eval
EvalEnvGlobal(s) == 1
EvalEnv(s) == sess[s].env

ReplInit ==
    /\ heap = ReplHeap
    /\ bufs = BaseBufs
    /\ stdout = <<>>
    /\ store = <<>>
    /\ outer = <<>>
    /\ lastSet = <<>>
    /\ op = [kind |-> "none"]
    /\ args = <<>>
    /\ snap = <<>>
    /\ sess = [s \in Sessions |->
                 [pc |-> "idle", env |-> 0, out |-> <<>>, nread |-> 0,
                  scanned |-> TRUE, evals |-> <<>>, last |-> [kind |-> "none"]]]

\* Start, up to its first scanner.Scan(): the scanner and the Environment
\* are created and the first prompt is written.
Start(s) ==
    /\ sess[s].pc = "idle"
    /\ store' = Append(store, EmptyStore)
    /\ outer' = Append(outer, 0)
    /\ lastSet' = Append(lastSet, EmptyStore)
    /\ sess' = [sess EXCEPT ![s].pc = "scan",
                            ![s].env = Len(store) + 1,
                            ![s].out = << PROMPT >>]
    /\ UNCHANGED <<heap, bufs, stdout, op, args, snap>>

\* One turn of the loop of Start: Scan returns a line, the line is parsed,
\* its errors are printed or its Program is evaluated and the result
\* printed, and the next turn writes the prompt and waits in Scan.
ReadLine(s, line) ==
    /\ sess[s].pc = "scan"
    /\ sess[s].nread < MaxLines
    /\ LET me == sess[s]
           before == [kind |-> "line", line |-> line, nout |-> Len(me.out),
                      store |-> store, nevals |-> Len(me.evals), result |-> 0]
       IN  IF Len(line.errors) # 0
           THEN /\ sess' = [sess EXCEPT
                       ![s].out = printParserErrors(me.out, line.errors)
                                     \o << PROMPT >>,
                       ![s].nread = me.nread + 1,
                       ![s].scanned = TRUE,
                       ![s].last = before]
                /\ UNCHANGED <<store, lastSet, snap>>
           ELSE LET env == EvalEnv(s)
                    r == Eval(store, line.program, env)
                IN  /\ store' = r.store
                    /\ lastSet' = IF line.program.kind = "let"
                                  THEN [lastSet EXCEPT ![env] =
                                          MapSet(lastSet[env], line.program.name,
                                                 line.program.value)]
                                  ELSE lastSet
                    /\ sess' = [sess EXCEPT
                          ![s].out = WriteResult(me.out, heap, bufs, r.result)
                                        \o << PROMPT >>,
                          ![s].nread = me.nread + 1,
                          ![s].scanned = TRUE,
                          ![s].evals = Append(me.evals,
                                 [env |-> env, before |-> store[env],
                                  after |-> r.store[env]]),
                          ![s].last = [before EXCEPT !.result = r.result]]
    /\ UNCHANGED <<heap, bufs, stdout, outer, op, args, snap>>

\* Scan returns false (the input is exhausted): Start returns.
ReadEOF(s) ==
    /\ sess[s].pc = "scan"
    /\ sess' = [sess EXCEPT ![s].pc = "done", ![s].scanned = FALSE]
    /\ UNCHANGED <<heap, bufs, stdout, store, outer, lastSet, op, args, snap>>

Next ==
    \/ \E s \in Sessions : Start(s)
    \/ \E s \in Sessions, line \in Lines : ReadLine(s, line)
    \/ \E s \in Sessions : ReadEOF(s)

Spec == ReplInit /\ [][Next]_vars

\* what a session wrote since it read its last line
LastWrites(s) ==
    SubSeq(sess[s].out, sess[s].last.nout + 1, Len(sess[s].out))

\* C3: one Environment per session, created before the first line and
\* passed to every Eval of the session: each evaluation starts from the
\* environment the previous evaluation of the session left (the first from
\* an empty one), the session's environment is what the last evaluation
\* left, and no two sessions evaluate in the same Environment.
C3_OneEnvironmentPerSession ==
    /\ \A s \in Sessions :
          LET ev == sess[s].evals
          IN  /\ \A k \in 1..Len(ev) : ev[k].env = sess[s].env
              /\ Len(ev) >= 1 => ev[1].before = EmptyStore
              /\ \A k \in 1..(Len(ev) - 1) : ev[k + 1].before = ev[k].after
              /\ sess[s].pc # "idle" =>
                    store[sess[s].env] =
                        IF Len(ev) = 0 THEN EmptyStore ELSE ev[Len(ev)].after
    /\ \A s, t \in Sessions :
          (s # t /\ sess[s].pc # "idle" /\ sess[t].pc # "idle") =>
              /\ sess[s].env # sess[t].env
              /\ \A k \in 1..Len(sess[s].evals), j \in 1..Len(sess[t].evals) :
                    sess[s].evals[k].env # sess[t].evals[j].env

\* a session looks up on its second line the binding its first line made,
\* while the other session has bound another name
C3_Witness ==
    \E s, t \in Sessions :
        /\ s # t
        /\ Len(sess[s].evals) = 2
        /\ sess[s].last.line.program.kind = "ident"
        /\ sess[s].last.result = 4
        /\ Len(sess[t].evals) >= 1
        /\ "y" \in DOMAIN store[sess[t].env]

\* C4: a line with parser errors: every error message is written once, in
\* list order (after the banner), nothing is evaluated, the session's
\* Environment is unchanged, no result is written, and the prompt follows.
C4_ParseErrorsSkipEval ==
    \A s \in Sessions :
        (sess[s].last.kind = "line" /\ Len(sess[s].last.line.errors) # 0) =>
            LET l == sess[s].last
                w == LastWrites(s)
                n == Len(l.line.errors)
            IN  /\ Len(w) = n + 4
                /\ \A i \in 1..n : w[3 + i] = "\t" \o l.line.errors[i] \o "\n"
                /\ w[1] = MONKEY_FACE
                /\ w[n + 4] = PROMPT
                /\ Len(sess[s].evals) = l.nevals
                /\ store[sess[s].env] = l.store[sess[s].env]

\* a line with two parser errors read after a line that bound a name
C4_Witness ==
    \E s \in Sessions :
        /\ sess[s].last.kind = "line"
        /\ Len(sess[s].last.line.errors) = 2
        /\ Len(sess[s].evals) = 1
        /\ store[sess[s].env] # EmptyStore

\* C9: a line without parser errors: the result's Inspect text and one
\* newline are written when the result is present, nothing when it is nil,
\* then the prompt; the session stops exactly when Scan reports the end of
\* the input.
C9_PrintsResultThenPrompt ==
    \A s \in Sessions :
        /\ (sess[s].last.kind = "line" /\ Len(sess[s].last.line.errors) = 0) =>
              LET l == sess[s].last
                  w == LastWrites(s)
              IN  IF l.result # 0
                  THEN w = << Inspect(heap, bufs, l.result), "\n", PROMPT >>
                  ELSE w = << PROMPT >>
        /\ (sess[s].pc = "done") <=> (sess[s].scanned = FALSE)
        /\ sess[s].pc # "idle" => sess[s].out[Len(sess[s].out)] = PROMPT

\* a session printed an integer for its last line, after a let line that
\* printed nothing, and then stopped at the end of its input
C9_Witness ==
    \E s \in Sessions :
        /\ sess[s].pc = "done"
        /\ sess[s].nread = 2
        /\ sess[s].last.kind = "line"
        /\ sess[s].last.result = 4
        /\ sess[s].out = << PROMPT, PROMPT, "1", "\n", PROMPT >>

(***************************************************************************)
(* The built-in functions (evaluator/builtins.go).  A built-in takes the   *)
(* heap, the backing arrays, the standard output and its arguments, and    *)
(* gives what it returns and what it leaves of the three; panic tells that *)
(* the Go code would panic (an index out of range, a method of nil).  The  *)
(* backquotes of the Go messages are written as apostrophes.               *)
(***************************************************************************)
Returns(a, h, b, so) ==
    [panic |-> FALSE, ret |-> a, heap |-> h, bufs |-> b, stdout |-> so]

Panics(h, b, so) ==
    [panic |-> TRUE, ret |-> 0, heap |-> h, bufs |-> b, stdout |-> so]

\* newError(format, a...): a new Error object with the formatted message
newError(msg, h, b, so) == Returns(Len(h) + 1, Append(h, Error(msg)), b, so)

\* make([]object.Object, n)
Make(n) == [i \in 1..n |-> 0]

\* copy(dst, src): dst after the call
Copy(dst, src) ==
    [i \in 1..Len(dst) |-> IF i <= Len(src) THEN src[i] ELSE dst[i]]

\* s[i] = v (i counted from 0): s after the assignment
SetAt(s, i, v) == [j \in 1..Len(s) |-> IF j = i + 1 THEN v ELSE s[j]]

\* &object.Array{Elements: newElements}, newElements a fresh backing array
NewArray(newElements, h, b, so) ==
    Returns(Len(h) + 1,
            Append(h, Array(Slice(Len(b) + 1, 0, Len(newElements)))),
            Append(b, newElements), so)

RECURSIVE PrintAll(_, _, _, _)
\* for _, arg := range args { fmt.Println(arg.Inspect()) }
PrintAll(h, b, so, as) ==
    IF Len(as) = 0 THEN Returns(NULL, h, b, so)
    ELSE IF as[1] = 0 THEN Panics(h, b, so)
    ELSE PrintAll(h, b, Append(so, Inspect(h, b, as[1]) \o "\n"), Tail(as))

putsFn(h, b, so, as) == PrintAll(h, b, so, as)

lenFnNoDefault(h, b, so, as) ==
    IF Len(as) # 1
    THEN newError("wrong number of arguments. got=" \o IntToStr(Len(as))
                    \o ", want=1", h, b, so)
    ELSE IF as[1] # 0 /\ h[as[1]].type = STRING_OBJ
    THEN Returns(Len(h) + 1, Append(h, Integer(Len(h[as[1]].Value))), b, so)
    ELSE IF as[1] # 0 /\ h[as[1]].type = ARRAY_OBJ
    THEN Returns(Len(h) + 1, Append(h, Integer(h[as[1]].Elements.len)), b, so)
    ELSE Returns(NULL, h, b, so)
lenFn(h, b, so, as) ==
    IF Len(as) # 1
    THEN newError("wrong number of arguments. got=" \o IntToStr(Len(as))
                    \o ", want=1", h, b, so)
    ELSE IF as[1] # 0 /\ h[as[1]].type = STRING_OBJ
    THEN Returns(Len(h) + 1, Append(h, Integer(Len(h[as[1]].Value))), b, so)
    ELSE IF as[1] # 0 /\ h[as[1]].type = ARRAY_OBJ
    THEN Returns(Len(h) + 1, Append(h, Integer(h[as[1]].Elements.len)), b, so)
    ELSE IF as[1] = 0 THEN Panics(h, b, so)
    ELSE newError("argument to 'len' not supported, got " \o Type(h, as[1]),
                  h, b, so)

firstFn(h, b, so, as) ==
    IF Len(as) # 1
    THEN newError("wrong number of arguments. got=" \o IntToStr(Len(as))
                    \o ". want=1", h, b, so)
    ELSE IF as[1] # 0 /\ h[as[1]].type = ARRAY_OBJ
    THEN LET els == SliceElems(b, h[as[1]].Elements)
         IN  IF Len(els) = 0 THEN Returns(NULL, h, b, so)
             ELSE Returns(els[1], h, b, so)
    ELSE IF as[1] = 0 THEN Panics(h, b, so)
    ELSE newError("argument to 'first' must be ARRAY, got " \o Type(h, as[1]),
                  h, b, so)

lastFn(h, b, so, as) ==
    IF Len(as) # 1
    THEN newError("wrong number of arguments. got=" \o IntToStr(Len(as))
                    \o ". want=1", h, b, so)
    ELSE IF as[1] # 0 /\ h[as[1]].type = ARRAY_OBJ
    THEN LET els == SliceElems(b, h[as[1]].Elements)
         IN  IF Len(els) <= 0 THEN Returns(NULL, h, b, so)
             ELSE Returns(els[Len(els)], h, b, so)
    ELSE IF as[1] = 0 THEN Panics(h, b, so)
    ELSE newError("argument to 'last' must be ARRAY, got " \o Type(h, as[1]),
                  h, b, so)

restFnCopiesFromHead(h, b, so, as) ==
    IF Len(as) # 1
    THEN newError("wrong number of arguments. got=" \o IntToStr(Len(as))
                    \o ". want=1", h, b, so)
    ELSE IF as[1] # 0 /\ h[as[1]].type = ARRAY_OBJ
    THEN LET els == SliceElems(b, h[as[1]].Elements)
             length == Len(els)
         IN  IF length <= 0 THEN Returns(NULL, h, b, so)
             ELSE NewArray(Copy(Make(length - 1), els), h, b, so)
    ELSE IF as[1] = 0 THEN Panics(h, b, so)
    ELSE newError("argument to 'rest' must be ARRAY, got " \o Type(h, as[1]),
                  h, b, so)
restFn(h, b, so, as) ==
    IF Len(as) # 1
    THEN newError("wrong number of arguments. got=" \o IntToStr(Len(as))
                    \o ". want=1", h, b, so)
    ELSE IF as[1] # 0 /\ h[as[1]].type = ARRAY_OBJ
    THEN LET els == SliceElems(b, h[as[1]].Elements)
             length == Len(els)
         IN  IF length <= 0 THEN Returns(NULL, h, b, so)
             ELSE NewArray(Copy(Make(length - 1), SubSeq(els, 2, length)),
                           h, b, so)
    ELSE IF as[1] = 0 THEN Panics(h, b, so)
    ELSE newError("argument to 'rest' must be ARRAY, got " \o Type(h, as[1]),
                  h, b, so)

\* push written with append(arg.Elements, args[1]): the element is stored
\* in the argument's backing array when it has room, and in a new backing
\* array of twice the size when it has none
pushFnAppends(h, b, so, as) ==
    IF Len(as) # 2
    THEN newError("wrong number of arguments. got=" \o IntToStr(Len(as))
                    \o ". want=2", h, b, so)
    ELSE IF as[1] # 0 /\ h[as[1]].type = ARRAY_OBJ
    THEN LET s == h[as[1]].Elements
             els == SliceElems(b, s)
             length == Len(els)
         IN  IF s.off + s.len < Len(b[s.buf])
             THEN Returns(Len(h) + 1,
                          Append(h, Array(Slice(s.buf, s.off, s.len + 1))),
                          [b EXCEPT ![s.buf] =
                              SetAt(b[s.buf], s.off + s.len, as[2])], so)
             ELSE Returns(Len(h) + 1,
                          Append(h, Array(Slice(Len(b) + 1, 0, length + 1))),
                          Append(b, SetAt(Copy(Make(2 * length + 1), els),
                                          length, as[2])), so)
    ELSE IF as[1] = 0 THEN Panics(h, b, so)
    ELSE newError("argument to 'push' must be ARRAY, got " \o Type(h, as[1]),
                  h, b, so)
pushFn(h, b, so, as) ==
    IF Len(as) # 2
    THEN newError("wrong number of arguments. got=" \o IntToStr(Len(as))
                    \o ". want=2", h, b, so)
    ELSE IF as[1] # 0 /\ h[as[1]].type = ARRAY_OBJ
    THEN LET els == SliceElems(b, h[as[1]].Elements)
             length == Len(els)
         IN  NewArray(SetAt(Copy(Make(length + 1), els), length, as[2]),
                      h, b, so)
    ELSE IF as[1] = 0 THEN Panics(h, b, so)
    ELSE newError("argument to 'push' must be ARRAY, got " \o Type(h, as[1]),
                  h, b, so)

BuiltinNames == {"puts", "len", "first", "last", "rest", "push"}

\* builtins[name].Fn(args...)
builtins(name, h, b, so, as) ==
    CASE name = "puts" -> putsFn(h, b, so, as)
      [] name = "len" -> lenFn(h, b, so, as)
      [] name = "first" -> firstFn(h, b, so, as)
      [] name = "last" -> lastFn(h, b, so, as)
      [] name = "rest" -> restFn(h, b, so, as)
      [] name = "push" -> pushFn(h, b, so, as)

\* the elements of the Array at address a
Elems(h, b, a) == SliceElems(b, h[a].Elements)

IsArray(h, a) == a # 0 /\ h[a].type = ARRAY_OBJ

\* the history of the arrays: what each held when it was created
SnapOf(h, b) == [a \in 1..Len(h) |-> IF IsArray(h, a) THEN Elems(h, b, a) ELSE <<>>]

\* A call of a built-in with arguments as.
Call(name, as) ==
    LET r == builtins(name, heap, bufs, stdout, as)
    IN  /\ heap' = r.heap
        /\ bufs' = r.bufs
        /\ stdout' = r.stdout
        /\ args' = as
        /\ op' = [kind |-> "call", name |-> name, panic |-> r.panic,
                  ret |-> r.ret, n |-> op.n + 1, nheap |-> Len(heap),
                  nbufs |-> Len(bufs)]
        /\ snap' = [a \in 1..Len(r.heap) |->
                      IF a <= Len(heap) THEN snap[a]
                      ELSE SnapOf(r.heap, r.bufs)[a]]
        /\ UNCHANGED <<store, outer, lastSet, sess>>

(***************************************************************************)
(* Every built-in on every argument list: the arguments are drawn from one *)
(* object of every variant, in every number up to MaxArgs.                 *)
(***************************************************************************)
ArgPool == {1, 2, 4, 6, 7, 8, 9, 10, 11, 12, 13}

ArgLists == UNION {[1..n -> ArgPool] : n \in 0..MaxArgs}

BuiltinsInit ==
    /\ heap = BaseHeap
    /\ bufs = BaseBufs
    /\ stdout = <<>>
    /\ store = <<>>
    /\ outer = <<>>
    /\ lastSet = <<>>
    /\ op = [kind |-> "none", n |-> 0]
    /\ args \in ArgLists
    /\ snap = SnapOf(BaseHeap, BaseBufs)
    /\ sess = <<>>

CallBuiltin(name) ==
    /\ op.n = 0
    /\ Call(name, args)

BuiltinsNext == \E name \in BuiltinNames : CallBuiltin(name)

SpecBuiltins == BuiltinsInit /\ [][BuiltinsNext]_vars

\* the arity and type violations of the built-ins
Violation(name, h, as) ==
    \/ name \in {"len", "first", "last", "rest"} /\ Len(as) # 1
    \/ name = "push" /\ Len(as) # 2
    \/ name = "len" /\ Len(as) = 1
         /\ h[as[1]].type \notin {STRING_OBJ, ARRAY_OBJ}
    \/ name \in {"first", "last", "rest"} /\ Len(as) = 1
         /\ h[as[1]].type # ARRAY_OBJ
    \/ name = "push" /\ Len(as) = 2 /\ h[as[1]].type # ARRAY_OBJ

\* C7: every built-in, on any number of arguments of any Object variants,
\* returns an Object without panicking, and an Error object whenever its
\* arity or argument type is violated.
C7_BuiltinsReturnErrors ==
    op.kind = "call" =>
        /\ ~op.panic
        /\ op.ret \in 1..Len(heap)
        /\ Violation(op.name, heap, args) => heap[op.ret].type = ERROR_OBJ

\* push called with two arguments, the first of them not an Array
C7_Witness ==
    /\ op.kind = "call"
    /\ op.name = "push"
    /\ Len(args) = 2
    /\ heap[args[1]].type = STRING_OBJ
    /\ heap[op.ret].type = ERROR_OBJ
    /\ heap[op.ret].Message = "argument to 'push' must be ARRAY, got STRING"

(***************************************************************************)
(* Sequences of first, last, rest and push calls on the arrays there are.  *)
(***************************************************************************)
ArraysInit ==
    /\ heap = BaseHeap
    /\ bufs = BaseBufs
    /\ stdout = <<>>
    /\ store = <<>>
    /\ outer = <<>>
    /\ lastSet = <<>>
    /\ op = [kind |-> "none", n |-> 0]
    /\ args = <<>>
    /\ snap = SnapOf(BaseHeap, BaseBufs)
    /\ sess = <<>>

Arrays == {a \in 1..Len(heap) : IsArray(heap, a)}

ElemPool == {4, 6, 8}

CallOnArray(name, a) ==
    /\ op.n < MaxCalls
    /\ Call(name, <<a>>)

CallPush(a, x) ==
    /\ op.n < MaxCalls
    /\ Call("push", <<a, x>>)

ArraysNext ==
    \/ \E name \in {"first", "last", "rest"}, a \in Arrays : CallOnArray(name, a)
    \/ \E a \in Arrays, x \in ElemPool : CallPush(a, x)

SpecArrays == ArraysInit /\ [][ArraysNext]_vars

\* C5: push(arr, x) returns a new Array holding the elements of arr in
\* order and then x; the result has a backing array of its own, shared
\* with no other Array, and every Array holds, after any sequence of calls,
\* the elements it held when it was created.
C5_PushDoesNotMutate ==
    /\ \A a \in Arrays : Elems(heap, bufs, a) = snap[a]
    /\ \A a, c \in Arrays : a # c => heap[a].Elements.buf # heap[c].Elements.buf
    /\ (op.kind = "call" /\ op.name = "push") =>
          /\ ~op.panic
          /\ op.ret = op.nheap + 1
          /\ IsArray(heap, op.ret)
          /\ Elems(heap, bufs, op.ret) = Append(snap[args[1]], args[2])
          /\ Len(Elems(heap, bufs, args[1])) = Len(snap[args[1]])
          /\ heap[op.ret].Elements.buf = op.nbufs + 1

\* an Array of two elements that was pushed onto twice: both results hold
\* three elements, differ in the last, and the Array still holds its two
C5_Witness ==
    /\ op.kind = "call"
    /\ op.name = "push"
    /\ op.n = 3
    /\ args[1] = 8
    /\ \E r \in Arrays :
          /\ r # op.ret
          /\ Len(snap[r]) = 3
          /\ SubSeq(snap[r], 1, 2) = snap[8]
          /\ snap[r][3] # args[2]
    /\ Elems(heap, bufs, 8) = <<4, 5>>

\* C8: on an Array a of n elements, first, last and rest return the
\* canonical Null when n = 0; otherwise first returns element 0, last
\* element n-1 and rest a new Array of the elements 1..n-1 in order (empty
\* when n = 1); a is unchanged.
C8_FirstLastRest ==
    (op.kind = "call" /\ op.name \in {"first", "last", "rest"}) =>
        LET a == args[1]
            els == snap[a]
            n == Len(els)
        IN  /\ ~op.panic
            /\ Elems(heap, bufs, a) = els
            /\ n = 0 => op.ret = NULL
            /\ (n >= 1 /\ op.name = "first") => op.ret = els[1]
            /\ (n >= 1 /\ op.name = "last") => op.ret = els[n]
            /\ (n >= 1 /\ op.name = "rest") =>
                  /\ op.ret = op.nheap + 1
                  /\ IsArray(heap, op.ret)
                  /\ Elems(heap, bufs, op.ret) = SubSeq(els, 2, n)
                  /\ Len(Elems(heap, bufs, op.ret)) = n - 1
                  /\ heap[op.ret].Elements.buf # heap[a].Elements.buf

\* rest of a one-element Array obtained by rest: an empty Array, not Null
C8_Witness ==
    /\ op.kind = "call"
    /\ op.name = "rest"
    /\ op.n >= 2
    /\ args[1] > Len(BaseHeap)
    /\ Len(snap[args[1]]) = 1
    /\ op.ret # NULL
    /\ IsArray(heap, op.ret)
    /\ Elems(heap, bufs, op.ret) = <<>>

(***************************************************************************)
(* HashKey (object/object.go).  A uint64 is held as its eight bytes, least *)
(* significant first, so that the 64-bit arithmetic is exact.              *)
(***************************************************************************)
\* a ^ b on bytes
RECURSIVE Xor(_, _)
Xor(a, b) ==
    IF a = 0 THEN b
    ELSE IF b = 0 THEN a
    ELSE 2 * Xor(a \div 2, b \div 2) + ((a + b) % 2)

\* the low n bytes of the two's complement form of i
RECURSIVE LowBytes(_, _)
LowBytes(i, n) ==
    IF n = 0 THEN <<>> ELSE <<i % 256>> \o LowBytes(i \div 256, n - 1)

\* uint64(i) of an int64 i
Uint64(i) == LowBytes(i, 8)

\* the sum of x[i] * y[k - i] over the bytes i = 0..k (bytes counted from 0)
RECURSIVE Column(_, _, _, _)
Column(x, y, k, i) ==
    IF i > k THEN 0 ELSE x[i + 1] * y[k - i + 1] + Column(x, y, k, i + 1)

RECURSIVE MulFrom(_, _, _, _)
MulFrom(x, y, k, carry) ==
    IF k = 8 THEN <<>>
    ELSE LET sum == carry + Column(x, y, k, 0)
         IN  <<sum % 256>> \o MulFrom(x, y, k + 1, sum \div 256)

\* x * y on uint64 (modulo 2^64)
Mul64(x, y) == MulFrom(x, y, 0, 0)

\* hash/fnv: offset64 = 14695981039346656037, prime64 = 1099511628211
FnvOffset64 == <<37, 35, 34, 132, 228, 156, 242, 203>>
FnvPrime64 == <<179, 1, 0, 0, 0, 1, 0, 0>>

\* h := fnv.New64a(); h.Write(bytes); h.Sum64()
RECURSIVE Fnv1aFrom(_, _)
Fnv1aFrom(hash, bytes) ==
    IF Len(bytes) = 0 THEN hash
    ELSE Fnv1aFrom(Mul64([hash EXCEPT ![1] = Xor(hash[1], bytes[1])], FnvPrime64),
                   Tail(bytes))

Fnv1a(bytes) == Fnv1aFrom(FnvOffset64, bytes)

\* the byte of a character
ByteOf(c) == CASE c = "a" -> 97 [] c = "b" -> 98

\* []byte(s)
Bytes(chars) == [i \in 1..Len(chars) |-> ByteOf(chars[i])]

HashKeyOf(type, value) == [Type |-> type, Value |-> value]

\* (b *Boolean) HashKey()
BooleanHashKey(h, a) ==
    HashKeyOf(Type(h, a), IF h[a].Value THEN Uint64(1) ELSE Uint64(0))

\* (i *Integer) HashKey()
IntegerHashKeyBooleanTag(h, a) == HashKeyOf(BOOLEAN_OBJ, Uint64(h[a].Value))
IntegerHashKey(h, a) == HashKeyOf(Type(h, a), Uint64(h[a].Value))

\* (s *String) HashKey()
StringHashKeyOfPointer(h, a) == HashKeyOf(Type(h, a), Uint64(a))
StringHashKey(h, a) == HashKeyOf(Type(h, a), Fnv1a(Bytes(h[a].Value)))

\* o.HashKey() of a Hashable o
HashKey(h, a) ==
    CASE h[a].type = BOOLEAN_OBJ -> BooleanHashKey(h, a)
      [] h[a].type = INTEGER_OBJ -> IntegerHashKey(h, a)
      [] h[a].type = STRING_OBJ -> StringHashKey(h, a)

(***************************************************************************)
(* HashKey on pairs of hashable objects: the heap holds two objects drawn  *)
(* from the hashable values, and HashKey is called on each.                *)
(***************************************************************************)
IntValues == {-2147483647, -256, -2, -1, 0, 1, 2, 255, 256, 2147483647}

StringValues == UNION {[1..n -> {"a", "b"}] : n \in 0..MaxStrLen}

HashableObjects ==
    {Integer(v) : v \in IntValues} \cup {Boolean(TRUE), Boolean(FALSE)}
        \cup {String(c) : c \in StringValues}

NoKey == HashKeyOf("", <<>>)

HashInit ==
    /\ heap \in [1..2 -> HashableObjects]
    /\ bufs = <<>>
    /\ stdout = <<>>
    /\ store = <<>>
    /\ outer = <<>>
    /\ lastSet = <<>>
    /\ op = [kind |-> "HashKey", keys |-> <<NoKey, NoKey>>]
    /\ args = <<>>
    /\ snap = <<>>
    /\ sess = <<>>

CallHashKey(a) ==
    /\ op.keys[a] = NoKey
    /\ op' = [op EXCEPT !.keys[a] = HashKey(heap, a)]
    /\ UNCHANGED <<heap, bufs, stdout, store, outer, lastSet, args, snap, sess>>

HashNext == \E a \in 1..2 : CallHashKey(a)

SpecHash == HashInit /\ [][HashNext]_vars

Hashed(a) == op.keys[a] # NoKey

\* C6: two hashable objects of the same type and the same value have equal
\* HashKeys (the same type tag and the same 64-bit value), whether or not
\* they are the same object.
C6_EqualValuesEqualKeys ==
    \A a, b \in 1..2 :
        (Hashed(a) /\ Hashed(b) /\ heap[a].type = heap[b].type
           /\ heap[a].Value = heap[b].Value) =>
            /\ op.keys[a] = op.keys[b]
            /\ op.keys[a].Type = heap[a].type
            /\ Len(op.keys[a].Value) = 8

\* two String objects with the text "ab": both have the FNV-1a hash of
\* "ab", 0x089c4407b545986a
C6_Witness ==
    /\ heap[1] = String(<<"a", "b">>)
    /\ heap[2] = String(<<"a", "b">>)
    /\ Hashed(1)
    /\ Hashed(2)
    /\ op.keys[1].Value = <<106, 152, 69, 181, 7, 68, 156, 8>>
    /\ op.keys[2].Value = <<106, 152, 69, 181, 7, 68, 156, 8>>

\* C10: Integers of different values have different HashKeys, true and
\* false have different HashKeys, and hashable objects of different types
\* have different HashKeys.
C10_DistinctKeys ==
    \A a, b \in 1..2 :
        (Hashed(a) /\ Hashed(b)) =>
            /\ heap[a].type # heap[b].type => op.keys[a] # op.keys[b]
            /\ (heap[a].type = heap[b].type /\ heap[a].type # STRING_OBJ
                  /\ heap[a].Value # heap[b].Value) =>
                    op.keys[a] # op.keys[b]

\* the Integer 1 and the Boolean true: the same 64-bit value, told apart
\* by the type tag
C10_Witness ==
    /\ heap[1] = Integer(1)
    /\ heap[2] = Boolean(TRUE)
    /\ Hashed(1)
    /\ Hashed(2)
    /\ op.keys[1].Value = op.keys[2].Value
    /\ op.keys[1] # op.keys[2]

====
